---- MODULE Spec2Model ----
(***************************************************************************)
(* deebee: a key -> versioned-file store.  DB.Writer / DB.Reader           *)
(* (src/deebee.go) run on caller threads against a Dir, the filesystem     *)
(* abstraction declared at src/deebee.go:100-118.  Every Dir operation is  *)
(* one atomic step; the steps of concurrent calls interleave freely.       *)
(***************************************************************************)
EXTENDS Integers, Sequences, FiniteSets, TLC

\* ------------------------------------------------------------------ bounds
\* A Writer call is started on a handle only while its counter, plus the calls
\* on it that have yet to advance the counter, is below this.
MaxVersion == 2

\* most options one call of Open is given
MaxOptions == 2

\* ------------------------------------------------------------- input sets
Threads == {"t1", "t2"}
Handles == {"h1", "h2"}
\* the byte strings a caller hands to Write
Payloads == {<<"x">>, <<"y">>}

\* Keys are strings, held as sequences of characters.
ValidKeys == {<<"a">>, <<"b">>}
\* invalidKeys of the test-suite
InvalidKeys ==
    { <<>>, <<" ", "a">>, <<"a", " ">>, <<".">>, <<".", ".">>, <<"/">>,
      <<"a", "/", "b">>, <<"\\">>, <<"a", "\\", "b">> }
Keys == ValidKeys \cup InvalidKeys

\* ------------------------------------------------------------------ errors
NoError == "nil"
clientError == "clientError"
dataNotFoundError == "dataNotFoundError"
\* errors of the Dir implementation, passed through unchanged
ioError == "ioError"
fileExistsError == "fileExistsError"

newClientError == clientError
IsClientError(e) == e = clientError
IsDataNotFound(e) == e = dataNotFoundError

NoName == <<>>
NoThread == "none"

\* ---------------------------------------------------------- pure functions
Digits == <<"0", "1", "2", "3", "4", "5", "6", "7", "8", "9">>
RECURSIVE Sprintf(_)
\* fmt.Sprintf("%d", n)
Sprintf(n) ==
    IF n < 0 THEN <<"-">> \o Sprintf(0 - n)
    ELSE IF n < 10 THEN <<Digits[n + 1]>>
    ELSE Sprintf(n \div 10) \o <<Digits[(n % 10) + 1]>>

DigitValue(c) == (CHOOSE i \in 1..10 : Digits[i] = c) - 1
IsDigit(c) == \E i \in 1..10 : Digits[i] = c
\* a file name is a version when it is a non-empty run of decimal digits
IsVersionName(s) == Len(s) > 0 /\ \A i \in 1..Len(s) : IsDigit(s[i])
RECURSIVE ParseVersion(_)
ParseVersion(s) ==
    IF Len(s) = 0 THEN 0
    ELSE 10 * ParseVersion(SubSeq(s, 1, Len(s) - 1)) + DigitValue(s[Len(s)])

\* the entries of a listing that parse as versions
toFilenames(names) ==
    { [name |-> n, version |-> ParseVersion(n)] : n \in {m \in names : IsVersionName(m)} }

\* the entry with the numerically greatest version
youngestFilename(fs) ==
    IF fs = {} THEN [file |-> [name |-> NoName, version |-> 0], exists |-> FALSE]
    ELSE [file |-> CHOOSE f \in fs : \A g \in fs : g.version <= f.version,
          exists |-> TRUE]

IsSpace(c) == c \in {" ", "\t", "\n", "\r"}
validateKey(key) ==
    IF key = <<>> THEN newClientError
    ELSE IF IsSpace(key[1]) \/ IsSpace(key[Len(key)]) THEN newClientError
    ELSE IF key = <<".">> \/ key = <<".", ".">> THEN newClientError
    ELSE IF \E i \in 1..Len(key) : key[i] \in {"/", "\\"} THEN newClientError
    ELSE NoError

\* ------------------------------------------------------------------- state
VARIABLES
    dirs,       \* Dir: the key subdirectories that exist under the database dir
    files,      \* Dir: files[k] maps the file names in subdirectory k to the file
    version,    \* DB.version of each handle
    mutex,      \* DB.mutex of each handle: the thread holding it, or NoThread
    pc,         \* position of each thread inside Writer / Reader
    hnd,        \* the handle the thread's call is on
    key,        \* the key argument of the thread's call
    name,       \* Writer: name; Reader: dataFile.name
    listed,     \* Reader: files
    err,        \* the error the thread's last call returned
    data,       \* the bytes the thread read from its read stream
    allocated,  \* history: per handle, the numbers nextVersionFilename returned
    session,    \* history: per thread, its last write session while undisturbed
    quiet,      \* history: per thread, whether every listed version was closed
    made,       \* history: per thread, whether its Writer call ran Mkdir
    open        \* the call of Open: its arguments, position and results

vars == <<dirs, files, version, mutex, pc, hnd, key, name, listed, err, data,
          allocated, session, quiet, made, open>>

NoSession == [key |-> NoName, payload |-> <<>>]
EmptyDir == [n \in {} |-> 0]

\* -------------------------------------------------------------------- Open

\* the dir argument: nil, a directory that does not exist, one that exists,
\* and one whose Exists() fails
DirArgs == {"nil", "missing", "present", "broken"}

\* an Option: nil, a function returning nil, a function returning E1 or E2
OptionErrors == {"E1", "E2"}
Options == {"nil", "ok"} \cup OptionErrors

OptionLists == UNION {[1..n -> Options] : n \in 0..MaxOptions}

\* error values of Open: what the value is and, for a wrapper, what it wraps
OpenError(kind, cause) == [kind |-> kind, cause |-> cause]
NoOpenError == OpenError(NoError, "")
NoDB == <<>>
NewDB(dir) == <<[dir |-> dir, version |-> 0]>>

\* errors.Is: the error itself or, through %w, the error it wraps
ErrorsIs(e, target) == e.kind = target \/ (e.kind = "wrapError" /\ e.cause = target)

OpenDirError_NoExistsCheck(dir) ==
    IF dir = "nil" THEN OpenError("errorString", "") ELSE NoOpenError

\* the checks of the dir argument before the handle is built
OpenDirError(dir) ==
    IF dir = "nil" THEN OpenError("errorString", "")
    ELSE IF dir = "broken" THEN OpenError(ioError, "")
    ELSE IF dir = "missing" THEN OpenError(newClientError, "")
    ELSE NoOpenError

WrapOptionError_Opaque(e) == OpenError("wrapError", "")

\* fmt.Errorf("applying option failed: %w", err)
WrapOptionError(e) == OpenError("wrapError", e)

\* the call of Open that the handles of Init came from, after its return
Opened ==
    [pc |-> "done", dir |-> "present", options |-> <<>>, i |-> 1,
     applied |-> <<>>, s |-> NewDB("present"), db |-> NewDB("present"),
     err |-> NoOpenError]

\* Open checks its dir argument and builds the handle
OpenCheckDir ==
    /\ open.pc = "start"
    /\ LET e == OpenDirError(open.dir) IN
        IF e # NoOpenError
        THEN open' = [open EXCEPT !.pc = "done", !.err = e]
        ELSE open' = [open EXCEPT !.pc = "options", !.s = NewDB(open.dir)]
    /\ UNCHANGED <<dirs, files, version, mutex, pc, hnd, key, name, listed, err,
                   data, allocated, session, quiet, made>>

\* the loop passes over a nil option
OpenSkipNil ==
    /\ open.pc = "options"
    /\ open.i <= Len(open.options)
    /\ open.options[open.i] = "nil"
    /\ open' = [open EXCEPT !.i = @ + 1]
    /\ UNCHANGED <<dirs, files, version, mutex, pc, hnd, key, name, listed, err,
                   data, allocated, session, quiet, made>>

\* the loop applies the next option and returns at its failure
OpenApplyOption ==
    /\ open.pc = "options"
    /\ open.i <= Len(open.options)
    /\ open.options[open.i] # "nil"
    /\ LET option == open.options[open.i] IN
        IF option \in OptionErrors
        THEN open' = [open EXCEPT !.pc = "done", !.applied = Append(@, open.i),
                                  !.err = WrapOptionError(option)]
        ELSE open' = [open EXCEPT !.i = @ + 1, !.applied = Append(@, open.i)]
    /\ UNCHANGED <<dirs, files, version, mutex, pc, hnd, key, name, listed, err,
                   data, allocated, session, quiet, made>>

\* every option was passed: Open returns the handle
OpenReturn ==
    /\ open.pc = "options"
    /\ open.i > Len(open.options)
    /\ open' = [open EXCEPT !.pc = "done", !.db = open.s]
    /\ UNCHANGED <<dirs, files, version, mutex, pc, hnd, key, name, listed, err,
                   data, allocated, session, quiet, made>>

\* the store that Open's handles work on: an existing, empty database directory
InitStore ==
    /\ dirs = {}
    /\ files = [k \in Keys |-> EmptyDir]
    /\ version = [h \in Handles |-> 0]
    /\ mutex = [h \in Handles |-> NoThread]
    /\ pc = [t \in Threads |-> "idle"]
    /\ hnd = [t \in Threads |-> "h1"]
    /\ key = [t \in Threads |-> NoName]
    /\ name = [t \in Threads |-> NoName]
    /\ listed = [t \in Threads |-> {}]
    /\ err = [t \in Threads |-> NoError]
    /\ data = [t \in Threads |-> <<>>]
    /\ allocated = [h \in Handles |-> <<>>]
    /\ session = [t \in Threads |-> NoSession]
    /\ quiet = [t \in Threads |-> FALSE]
    /\ made = [t \in Threads |-> FALSE]

\* state after Open on an existing, empty database directory
Init == InitStore /\ open = Opened

\* state at a call of Open, over every dir argument and option list
InitOpen ==
    /\ InitStore
    /\ open \in {[pc |-> "start", dir |-> d, options |-> o, i |-> 1,
                  applied |-> <<>>, s |-> NoDB, db |-> NoDB, err |-> NoOpenError] :
                 d \in DirArgs, o \in OptionLists}

\* ------------------------------------------------------------ Dir contract
\* Exists: "Returns true when directory exists"
DirExists(k) == k \in dirs
\* ListFiles: "List files excluding directories"
ListFiles(k) == DOMAIN files[k]
\* a FileWriter that creates over an existing file
FileWriterFails_Never(k, n) == FALSE
\* FileWriter: "Must return error when file already exists"
FileWriterFails(k, n) == n \in DOMAIN files[k]
\* FileWriter: "Creates a new file for write": the name is bound to a new,
\* empty file with an open write stream.  synced: the content is on stable
\* storage, which is what FileWriter.Sync brings about.
NewFile == [content |-> <<>>, open |-> TRUE, synced |-> FALSE]
CreateFile(k, n) == [files EXCEPT ![k] = (n :> NewFile) @@ files[k]]
\* FileReader: "Must return error when file does not exist"
FileReaderFails(k, n) == n \notin DOMAIN files[k]

\* ------------------------------------------------------------------ Writer
\* a call starts: the thread's variables of the previous call are dropped
Enter(t, h, k) ==
    /\ pc[t] \in {"idle", "w_done", "r_read", "r_done"}
    /\ hnd' = [hnd EXCEPT ![t] = h]
    /\ key' = [key EXCEPT ![t] = k]
    /\ name' = [name EXCEPT ![t] = NoName]
    /\ listed' = [listed EXCEPT ![t] = {}]
    /\ data' = [data EXCEPT ![t] = <<>>]
    /\ quiet' = [quiet EXCEPT ![t] = FALSE]
    /\ made' = [made EXCEPT ![t] = FALSE]

\* the thread's call returns error e and no stream
Return(t, done, e) ==
    /\ pc' = [pc EXCEPT ![t] = done]
    /\ err' = [err EXCEPT ![t] = e]

\* the thread's call goes on to the step at label
Goto(t, label) ==
    /\ pc' = [pc EXCEPT ![t] = label]
    /\ err' = [err EXCEPT ![t] = NoError]

\* Writer without the key check
WriterRejects_Never(k) == FALSE
\* Writer: if err := validateKey(key); err != nil { return nil, err }
WriterRejects(k) == validateKey(k) # NoError

\* the threads inside a Writer call on h that has not yet advanced the counter
Allocating(h) == {u \in Threads : hnd[u] = h /\ pc[u] \in {"w_mkdir", "w_lock", "w_inc"}}

\* Writer up to stateDir.Exists(): the key is validated, then the
\* subdirectory is looked up
WriterBegin(t, h, k) ==
    /\ Enter(t, h, k)
    /\ WriterRejects(k) \/ version[h] + Cardinality(Allocating(h)) < MaxVersion
    /\ IF WriterRejects(k)
       THEN Return(t, "w_done", validateKey(k))
            /\ session' = [session EXCEPT ![t] = NoSession]
       ELSE \E ok \in BOOLEAN :
            IF ~ok
            THEN Return(t, "w_done", ioError)
                 /\ session' = [session EXCEPT ![t] = NoSession]
            ELSE Goto(t, IF DirExists(k) THEN "w_lock" ELSE "w_mkdir")
                 /\ session' = [session EXCEPT ![t] = [key |-> k, payload |-> <<>>]]
    /\ UNCHANGED <<dirs, files, version, mutex, allocated, open>>

\* a Mkdir that refuses a directory that exists
MkdirRejects_Existing(k) == k \in dirs

\* Dir.Mkdir: "Do nothing when directory already exists"
MkdirRejects(k) == FALSE

\* if !exists { if err := stateDir.Mkdir(); err != nil { return nil, err } }
WriterMkdir(t) ==
    /\ pc[t] = "w_mkdir"
    /\ \E ok \in BOOLEAN :
        IF ~ok \/ MkdirRejects(key[t])
        THEN Return(t, "w_done", IF MkdirRejects(key[t]) THEN fileExistsError ELSE ioError)
             /\ session' = [session EXCEPT ![t] = NoSession]
             /\ UNCHANGED <<dirs, made>>
        ELSE /\ dirs' = dirs \cup {key[t]}
             /\ made' = [made EXCEPT ![t] = TRUE]
             /\ Goto(t, "w_lock")
             /\ UNCHANGED session
    /\ UNCHANGED <<files, version, mutex, hnd, key, name, listed, data,
                   allocated, quiet, open>>

\* a Lock that does not exclude
MutexFree_NoExclusion(h) == TRUE

\* sync.Mutex: Lock returns only when no thread holds the mutex
MutexFree(h) == mutex[h] = NoThread

\* s.mutex.Lock(); name := fmt.Sprintf("%d", s.version)
LockAndFormat(t) ==
    /\ pc[t] = "w_lock"
    /\ MutexFree(hnd[t])
    /\ mutex' = [mutex EXCEPT ![hnd[t]] = t]
    /\ name' = [name EXCEPT ![t] = Sprintf(version[hnd[t]])]
    /\ allocated' = [allocated EXCEPT ![hnd[t]] = Append(@, version[hnd[t]])]
    /\ pc' = [pc EXCEPT ![t] = "w_inc"]
    /\ UNCHANGED <<dirs, files, version, hnd, key, listed, err, data,
                   session, quiet, made, open>>

\* the increment left out
NextVersion_Stuck(v) == v
\* the counter run backwards
NextVersion_Down(v) == v - 1
\* the counter advanced by two
NextVersion_Skip(v) == v + 2

\* s.version++
NextVersion(v) == v + 1

\* the deferred Unlock left out
IncrementAndUnlock_NoUnlock(t) ==
    /\ pc[t] = "w_inc"
    /\ version' = [version EXCEPT ![hnd[t]] = NextVersion(@)]
    /\ pc' = [pc EXCEPT ![t] = "w_create"]
    /\ UNCHANGED <<dirs, files, mutex, hnd, key, name, listed, err, data,
                   allocated, session, quiet, made, open>>

\* s.version++; return name, which runs the deferred s.mutex.Unlock()
IncrementAndUnlock(t) ==
    /\ pc[t] = "w_inc"
    /\ version' = [version EXCEPT ![hnd[t]] = NextVersion(@)]
    /\ mutex' = [mutex EXCEPT ![hnd[t]] = NoThread]
    /\ pc' = [pc EXCEPT ![t] = "w_create"]
    /\ UNCHANGED <<dirs, files, hnd, key, name, listed, err, data,
                   allocated, session, quiet, made, open>>

\* a file created in subdirectory k by thread t disturbs the write sessions
\* the other threads have begun on k
Disturb(t, k) ==
    [u \in Threads |->
        IF u # t /\ session[u].key = k THEN NoSession ELSE session[u]]

\* return stateDir.FileWriter(name)
WriterCreate(t) ==
    /\ pc[t] = "w_create"
    /\ IF FileWriterFails(key[t], name[t])
       THEN Return(t, "w_done", fileExistsError)
            /\ session' = [session EXCEPT ![t] = NoSession]
            /\ name' = [name EXCEPT ![t] = NoName]
            /\ UNCHANGED files
       ELSE \E ok \in BOOLEAN :
            IF ~ok
            THEN Return(t, "w_done", ioError)
                 /\ session' = [session EXCEPT ![t] = NoSession]
                 /\ name' = [name EXCEPT ![t] = NoName]
                 /\ UNCHANGED files
            ELSE /\ files' = CreateFile(key[t], name[t])
                 /\ session' = Disturb(t, key[t])
                 /\ Goto(t, "w_open")
                 /\ UNCHANGED name
    /\ made' = [made EXCEPT ![t] = IF pc'[t] = "w_done" THEN FALSE ELSE @]
    /\ UNCHANGED <<dirs, version, mutex, hnd, key, listed, data,
                   allocated, quiet, open>>

\* io.Writer on the stream Writer returned: the bytes are appended to the file
Write(t, p) ==
    /\ pc[t] = "w_open"
    /\ files' = [files EXCEPT ![key[t]][name[t]].content = @ \o p]
    /\ session' = [session EXCEPT ![t] =
                     IF @ = NoSession THEN @ ELSE [@ EXCEPT !.payload = @ \o p]]
    /\ pc' = [pc EXCEPT ![t] = "w_written"]
    /\ made' = [made EXCEPT ![t] = FALSE]
    /\ UNCHANGED <<dirs, version, mutex, hnd, key, name, listed, err, data,
                   allocated, quiet, open>>

\* io.Closer on the stream Writer returned.  The stream is the Dir's
\* FileWriter itself: its Close releases the file, and FileWriter.Sync, which
\* makes the content durable, is called nowhere in DB.
WriterClose(t) ==
    /\ pc[t] \in {"w_open", "w_written"}
    /\ files' = [files EXCEPT ![key[t]][name[t]].open = FALSE]
    /\ pc' = [pc EXCEPT ![t] = "w_done"]
    /\ name' = [name EXCEPT ![t] = NoName]
    /\ made' = [made EXCEPT ![t] = FALSE]
    /\ UNCHANGED <<dirs, version, mutex, hnd, key, listed, err, data,
                   allocated, session, quiet, open>>

\* ------------------------------------------------------------------ Reader
\* Reader: if err := validateKey(key); err != nil { return nil, err }
ReaderRejects(k) == validateKey(k) # NoError

\* a missing subdirectory reported as a caller error
ReaderNoDirError_Client == newClientError

\* the error Reader returns when the key's subdirectory does not exist
ReaderNoDirError == dataNotFoundError

\* the write session of the thread counts for a Reader call on its key only
KeepSession(t, k) ==
    [session EXCEPT ![t] = IF @.key = k THEN @ ELSE NoSession]

\* a Reader that makes the subdirectory it does not find, as Writer does
ReaderBegin_Mkdir(t, h, k) ==
    /\ Enter(t, h, k)
    /\ session' = KeepSession(t, k)
    /\ IF ReaderRejects(k)
       THEN Return(t, "r_done", validateKey(k)) /\ UNCHANGED dirs
       ELSE Goto(t, "r_list") /\ dirs' = dirs \cup {k}
    /\ UNCHANGED <<files, version, mutex, allocated, open>>

\* Reader up to stateDir.Exists()
ReaderBegin(t, h, k) ==
    /\ Enter(t, h, k)
    /\ session' = KeepSession(t, k)
    /\ IF ReaderRejects(k)
       THEN Return(t, "r_done", validateKey(k))
       ELSE \E ok \in BOOLEAN :
            IF ~ok THEN Return(t, "r_done", ioError)
            ELSE IF ~DirExists(k) THEN Return(t, "r_done", ReaderNoDirError)
            ELSE Goto(t, "r_list")
    /\ UNCHANGED <<dirs, files, version, mutex, allocated, open>>

\* the selection taking the oldest version
ReaderSelect_Oldest(names) ==
    LET fs == toFilenames(names)
    IN  IF fs = {} THEN [err |-> dataNotFoundError, name |-> NoName]
        ELSE [err |-> NoError,
              name |-> (CHOOSE f \in fs : \A g \in fs : f.version <= g.version).name]

\* dataFile, exists := youngestFilename(toFilenames(files)); if !exists {...}
ReaderSelect(names) ==
    LET y == youngestFilename(toFilenames(names))
    IN  IF ~y.exists THEN [err |-> dataNotFoundError, name |-> NoName]
        ELSE [err |-> NoError, name |-> y.file.name]

\* files, err := stateDir.ListFiles(), and the selection of the version
ReaderList(t) ==
    /\ pc[t] = "r_list"
    /\ \E ok \in BOOLEAN :
        IF ~ok THEN Return(t, "r_done", ioError) /\ UNCHANGED <<name, listed, quiet>>
        ELSE LET fs == ListFiles(key[t])
                 sel == ReaderSelect(fs)
             IN  IF sel.err # NoError
                 THEN Return(t, "r_done", sel.err) /\ UNCHANGED <<name, listed, quiet>>
                 ELSE /\ listed' = [listed EXCEPT ![t] = fs]
                      /\ quiet' = [quiet EXCEPT ![t] =
                                      \A n \in fs : ~files[key[t]][n].open]
                      /\ name' = [name EXCEPT ![t] = sel.name]
                      /\ Goto(t, "r_file")
    /\ UNCHANGED <<dirs, files, version, mutex, hnd, key, data, allocated, session, made, open>>

\* return stateDir.FileReader(dataFile.name)
ReaderOpen(t) ==
    /\ pc[t] = "r_file"
    /\ IF FileReaderFails(key[t], name[t])
       THEN Return(t, "r_done", ioError) /\ name' = [name EXCEPT ![t] = NoName]
       ELSE \E ok \in BOOLEAN :
            IF ~ok
            THEN Return(t, "r_done", ioError) /\ name' = [name EXCEPT ![t] = NoName]
            ELSE Goto(t, "r_open") /\ UNCHANGED name
    /\ listed' = [listed EXCEPT ![t] = IF pc'[t] = "r_done" THEN {} ELSE @]
    /\ quiet' = [quiet EXCEPT ![t] = IF pc'[t] = "r_done" THEN FALSE ELSE @]
    /\ UNCHANGED <<dirs, files, version, mutex, hnd, key, data,
                   allocated, session, made, open>>

\* ioutil.ReadAll on the stream Reader returned
ReadAll(t) ==
    /\ pc[t] = "r_open"
    /\ data' = [data EXCEPT ![t] = files[key[t]][name[t]].content]
    /\ pc' = [pc EXCEPT ![t] = "r_read"]
    /\ UNCHANGED <<dirs, files, version, mutex, hnd, key, name, listed, err,
                   allocated, session, quiet, made, open>>

\* ----------------------------------------------------------- specifications
\* the steps inside a call
Step(t) ==
    \/ WriterMkdir(t)
    \/ LockAndFormat(t)
    \/ IncrementAndUnlock(t)
    \/ WriterCreate(t)
    \/ \E p \in Payloads : Write(t, p)
    \/ WriterClose(t)
    \/ ReaderList(t)
    \/ ReaderOpen(t)
    \/ ReadAll(t)

\* one handle, opened on an empty directory, used by all threads
Next ==
    \E t \in Threads :
        \/ \E k \in ValidKeys : WriterBegin(t, "h1", k)
        \/ \E k \in ValidKeys : ReaderBegin(t, "h1", k)
        \/ Step(t)

Spec == Init /\ [][Next]_vars

\* a thread that holds the mutex is scheduled again: it runs on to its Unlock
SpecFair == Spec /\ \A t \in Threads : WF_vars(IncrementAndUnlock(t))

\* the same handle called with every key of the test-suite, valid or not
NextKeys ==
    \E t \in Threads :
        \/ \E k \in InvalidKeys \cup {<<"a">>} : WriterBegin(t, "h1", k)
        \/ \E k \in InvalidKeys \cup {<<"a">>} : ReaderBegin(t, "h1", k)
        \/ Step(t)

SpecKeys == Init /\ [][NextKeys]_vars

\* two handles opened on the same directory, each with its own counter and
\* each used by one thread
HandleOf(t) == IF t = "t1" THEN "h1" ELSE "h2"
\* the key both handles are used on
SharedKey == <<"a">>

NextHandles ==
    \E t \in Threads :
        \/ WriterBegin(t, HandleOf(t), SharedKey)
        \/ ReaderBegin(t, HandleOf(t), SharedKey)
        \/ Step(t)

SpecHandles == Init /\ [][NextHandles]_vars

\* the bytes of a version file at rest are damaged on the backing store
Corrupted(bytes) == \E i \in 1..Len(bytes) : bytes[i] = "#"

Corrupt(k, n) ==
    /\ ~files[k][n].open
    /\ ~Corrupted(files[k][n].content)
    /\ \A t \in Threads : key[t] = k => pc[t] \notin {"r_list", "r_file", "r_open"}
    /\ files' = [files EXCEPT ![k][n].content = <<"#">>]
    /\ UNCHANGED <<dirs, version, mutex, pc, hnd, key, name, listed, err, data,
                   allocated, session, quiet, made, open>>

\* one handle used by all threads, over a backing store that damages files
NextCorrupt ==
    \/ Next
    \/ \E k \in ValidKeys : \E n \in DOMAIN files[k] : Corrupt(k, n)

SpecCorrupt == Init /\ [][NextCorrupt]_vars

\* one call of Open, from its arguments to its return
NextOpen ==
    \/ OpenCheckDir
    \/ OpenSkipNil
    \/ OpenApplyOption
    \/ OpenReturn

SpecOpen == InitOpen /\ [][NextOpen]_vars

\* ------------------------------------------------------------------ claims
Range(f) == {f[x] : x \in DOMAIN f}
InStream(t) == pc[t] \in {"r_open", "r_read"}

\* C1: whatever the interleaving of Writer calls on one handle, the numbers
\* handed out by nextVersionFilename are pairwise distinct and, after n
\* allocations, are exactly 0..n-1.
C1_VersionsDistinctAndGapless ==
    \A h \in Handles :
        LET n == Len(allocated[h])
        IN  /\ Range(allocated[h]) = 0..(n - 1)
            /\ \A i, j \in 1..n : i # j => allocated[h][i] # allocated[h][j]

\* two threads hold a freshly allocated name at the same time
C1_Witness ==
    /\ pc["t1"] = "w_create" /\ pc["t2"] = "w_create"
    /\ hnd["t1"] = hnd["t2"]
    /\ key["t1"] # key["t2"]
    /\ Len(allocated[hnd["t1"]]) = 2

\* the listed name whose number the handle handed out last
LastAllocated(h, names) ==
    LET pos(n) == CHOOSE i \in 1..Len(allocated[h]) : Sprintf(allocated[h][i]) = n
    IN  CHOOSE n \in names : \A m \in names : pos(m) <= pos(n)

\* C2: when every version of the key is closed, Reader serves the version
\* whose Writer call was allocated last, with the content written to it.
C2_ReadsLastAllocatedWrite ==
    \A t \in Threads :
        (pc[t] = "r_read" /\ quiet[t]) =>
            /\ name[t] = LastAllocated(hnd[t], listed[t])
            /\ data[t] = files[key[t]][name[t]].content

\* a read after two closed writes of different content to one key
C2_Witness ==
    \E t \in Threads :
        /\ pc[t] = "r_read" /\ quiet[t]
        /\ Cardinality(listed[t]) = 2
        /\ \E n \in listed[t] : files[key[t]][n].content # data[t]

\* C3: no Reader holds a stream on a version whose write session is open.
C3_NoStreamOnOpenVersion ==
    \A t \in Threads : InStream(t) => ~files[key[t]][name[t]].open

\* C4: a thread that writes a payload to a key, closes, and then reads the
\* key gets exactly the payload (the Reader call fails only if the Dir fails).
C4_WriteReadRoundTrip ==
    \A t \in Threads :
        (session[t].key \in ValidKeys /\ session[t].key = key[t]) =>
            /\ pc[t] = "r_read" => data[t] = session[t].payload
            /\ pc[t] = "r_done" => err[t] = ioError

\* a second write session of the thread on the key has been read back
C4_Witness ==
    \E t \in Threads :
        /\ pc[t] = "r_read"
        /\ session[t].key = key[t]
        /\ session[t].payload = <<"y">>
        /\ data[t] = <<"y">>
        /\ Cardinality(listed[t]) = 2

StrictlyIncreasing(s) == \A i, j \in 1..Len(s) : i < j => s[i] < s[j]

\* C6: the numbers a handle allocates are strictly increasing, whatever the
\* keys and whether or not the calls succeed, and the counter never decreases.
C6_CounterStrictlyIncreases ==
    /\ [](\A h \in Handles : StrictlyIncreasing(allocated[h]))
    /\ [][\A h \in Handles : version'[h] >= version[h]]_vars

\* two allocations for different keys, the first of which failed to create
C6_Witness ==
    \E t \in Threads :
        /\ pc[t] = "w_done" /\ err[t] = ioError
        /\ Len(allocated["h1"]) = 2
        /\ key[t] \in dirs /\ DOMAIN files[key[t]] = {}
        /\ \E k \in ValidKeys : k # key[t] /\ DOMAIN files[k] = {Sprintf(1)}

NoVersion(k) == k \notin dirs \/ toFilenames(DOMAIN files[k]) = {}

\* C7: Reader on a valid key with no version to serve returns no stream and,
\* unless a Dir operation failed, a DataNotFound error that is classified as
\* not-found and not as a ClientError.
C7_NoVersionIsDataNotFound ==
    \A t \in Threads :
        (key[t] \in ValidKeys /\ NoVersion(key[t])) =>
            /\ pc[t] \notin {"r_file", "r_open", "r_read"}
            /\ (pc[t] = "r_done" /\ err[t] # ioError) =>
                  /\ err[t] = dataNotFoundError
                  /\ IsDataNotFound(err[t])
                  /\ ~IsClientError(err[t])

\* not-found returned to one thread for a subdirectory that exists and holds
\* no version, and to the other for a subdirectory that does not exist
C7_Witness ==
    \E t, u \in Threads :
        /\ pc[t] = "r_done" /\ err[t] = dataNotFoundError
        /\ key[t] \in dirs /\ DOMAIN files[key[t]] = {}
        /\ pc[u] = "r_done" /\ err[u] = dataNotFoundError
        /\ key[u] \in ValidKeys /\ key[u] \notin dirs

\* C9: a version whose write session was closed is synced to stable storage.
C9_ClosedIsSynced ==
    \A k \in Keys : \A n \in DOMAIN files[k] :
        ~files[k][n].open => files[k][n].synced

IsPrefix(s, u) == Len(s) <= Len(u) /\ SubSeq(u, 1, Len(s)) = s

\* C5: a version file that exists stays, is never opened for write a second
\* time and changes only by its own open session appending to it, through
\* whichever handle Writer is called; a Writer whose allocated name exists
\* returns the create error and no stream and allocates no second name.
C5_NeverOverwritten ==
    /\ [][\A k \in Keys : \A n \in DOMAIN files[k] :
            /\ n \in DOMAIN files'[k]
            /\ files'[k][n].open => files[k][n].open
            /\ IsPrefix(files[k][n].content, files'[k][n].content)
            /\ files'[k][n].content # files[k][n].content => files[k][n].open]_vars
    /\ [][\A t \in Threads :
            (pc[t] = "w_create" /\ pc'[t] # "w_create"
                /\ name[t] \in DOMAIN files[key[t]]) =>
                /\ pc'[t] = "w_done"
                /\ err'[t] = fileExistsError
                /\ files' = files
                /\ version' = version /\ allocated' = allocated]_vars

\* the second handle was refused the name of a closed, non-empty version
\* written through the first
C5_Witness ==
    \E t \in Threads :
        /\ pc[t] = "w_done" /\ err[t] = fileExistsError /\ hnd[t] = "h2"
        /\ Sprintf(0) \in DOMAIN files[key[t]]
        /\ ~files[key[t]][Sprintf(0)].open
        /\ files[key[t]][Sprintf(0)].content # <<>>
        /\ allocated["h1"] # <<>>

\* C8: Writer and Reader called with an invalid key return a ClientError and
\* no stream in the step that makes the call, which leaves the directories,
\* the files and the version counter as they were.
C8_InvalidKeyRejected ==
    /\ [](\A t \in Threads :
            (key[t] \in InvalidKeys /\ pc[t] # "idle") =>
                /\ pc[t] \in {"w_done", "r_done"}
                /\ IsClientError(err[t]))
    /\ [][\A t \in Threads :
            (key'[t] \in InvalidKeys /\ <<pc[t], key[t], err[t]>>' # <<pc[t], key[t], err[t]>>) =>
                UNCHANGED <<dirs, files, version, mutex, allocated>>]_vars

\* both entry points have rejected a key holding a separator while the
\* store already held a version
C8_Witness ==
    /\ pc["t1"] = "w_done" /\ key["t1"] = <<"a", "/", "b">> /\ IsClientError(err["t1"])
    /\ pc["t2"] = "r_done" /\ key["t2"] = <<"a", "\\", "b">> /\ IsClientError(err["t2"])
    /\ dirs = {<<"a">>} /\ version["h1"] = 1

\* C10: Reader serves the youngest version that is intact, never the bytes of
\* a damaged one (no stream at all when every version is damaged).
C10_FallsBackToIntactVersion ==
    \A t \in Threads :
        /\ pc[t] = "r_open" =>
              LET intact == {n \in listed[t] : ~Corrupted(files[key[t]][n].content)}
              IN  /\ intact # {}
                  /\ name[t] = youngestFilename(toFilenames(intact)).file.name
        /\ pc[t] = "r_read" => ~Corrupted(data[t])


\* the options of the call that fail, and the first of them
FailingOptions == {i \in DOMAIN open.options : open.options[i] \in OptionErrors}
FirstFailing == CHOOSE i \in FailingOptions : \A j \in FailingOptions : i <= j

\* the indices up to n of the options that are not nil, in the order given
NonNilUpTo(n) ==
    SelectSeq([i \in 1..n |-> i], LAMBDA i : open.options[i] # "nil")

\* C11: Open returns a handle and no error exactly when dir is not nil, the
\* directory exists and every option that is not nil succeeds; in every other
\* case it returns an error and no handle.
C11_OpenSucceedsExactlyWhen ==
    open.pc = "done" =>
        IF open.dir = "present" /\ FailingOptions = {}
        THEN open.db = NewDB(open.dir) /\ open.err = NoOpenError
        ELSE open.db = NoDB /\ open.err # NoOpenError

C11_Witness ==
    /\ open.pc = "done"
    /\ open.dir = "present"
    /\ open.options = <<"nil", "ok">>
    /\ open.db # NoDB

\* C12: Open applies its options in the order given and skips nil ones; at the
\* first option that fails with E it applies no later option, returns no
\* handle, and returns an error for which errors.Is(err, E) holds.
C12_OptionsInOrderUntilFailure ==
    /\ open.pc = "options" => open.applied = NonNilUpTo(open.i - 1)
    /\ (open.pc = "done" /\ open.dir = "present") =>
        IF FailingOptions = {}
        THEN open.applied = NonNilUpTo(Len(open.options))
        ELSE /\ open.applied = NonNilUpTo(FirstFailing)
             /\ open.db = NoDB
             /\ ErrorsIs(open.err, open.options[FirstFailing])

C12_Witness ==
    /\ open.pc = "done"
    /\ open.options = <<"E1", "ok">>
    /\ open.applied = <<1>>
    /\ ErrorsIs(open.err, "E1")

\* C19: the error Open returns for a nil dir is a ClientError.
C19_NilDirIsClientError ==
    (open.pc = "done" /\ open.dir = "nil") => IsClientError(open.err.kind)

\* thread t's call returns an error in this step
FailsNow(t) ==
    /\ pc'[t] \in {"w_done", "r_done"}
    /\ err'[t] # NoError
    /\ <<pc[t], key[t], err[t]>> # <<pc'[t], key'[t], err'[t]>>

\* C13: a Writer call that fails after its number was allocated returns no
\* stream and adds no file, and its number stays below the counter, which never
\* decreases, so the handle never hands it out again; a Writer call that fails
\* before the allocation leaves the counter and the allocations as they were.
C13_FailedWriterWastesNumber ==
    [][\A t \in Threads :
        (FailsNow(t) /\ pc'[t] = "w_done") =>
            /\ files' = files
            /\ version' = version
            /\ allocated' = allocated
            /\ pc[t] = "w_create" =>
                /\ ParseVersion(name[t]) \in Range(allocated[hnd[t]])
                /\ ParseVersion(name[t]) < version[hnd[t]]
                /\ name[t] \notin DOMAIN files'[key[t]]
       ]_vars
    /\ [][\A h \in Handles : version'[h] >= version[h]
                             /\ IsPrefix(allocated[h], allocated'[h])]_vars
    /\ [](\A h \in Handles : \A i, j \in 1..Len(allocated[h]) :
            i # j => allocated[h][i] # allocated[h][j])

\* the create of version 0 failed, and the next Writer call was handed 1
C13_Witness ==
    \E t, u \in Threads :
        /\ t # u
        /\ pc[u] = "w_done" /\ err[u] = ioError
        /\ pc[t] = "w_open" /\ name[t] = Sprintf(1)
        /\ allocated[hnd[t]] = <<0, 1>>
        /\ \A k \in ValidKeys : DOMAIN files[k] \subseteq {Sprintf(1)}

\* thread t holds the mutex of some handle
HoldsLock(t) == \E h \in Handles : mutex[h] = t

\* C14: a thread holds the handle's mutex only between reading the counter and
\* incrementing it, a step that waits for nothing, so no thread holds it while
\* it is at a Dir operation, and a lock that is held is released.
C14_LockOnlyAroundIncrement ==
    /\ [](\A t \in Threads : HoldsLock(t) =>
            /\ pc[t] = "w_inc"
            /\ mutex[hnd[t]] = t
            /\ ENABLED IncrementAndUnlock(t))
    /\ \A h \in Handles : (mutex[h] # NoThread) ~> (mutex[h] = NoThread)

\* one thread holds the lock while the other is about to create its file
C14_Witness ==
    \E t, u \in Threads :
        /\ HoldsLock(t)
        /\ pc[u] = "w_create"
        /\ hnd[u] = hnd[t]

\* the positions of a Writer call after its subdirectory check and Mkdir
PastMkdir == {"w_lock", "w_inc", "w_create", "w_open", "w_written"}

\* C15: Mkdir in Writer leaves the key's subdirectory in place, whether or not
\* another thread made it since this call saw it absent, and fails only when
\* the Dir fails; a Writer call past it finds the subdirectory, and two calls
\* that both ran Mkdir for one key hold streams on two distinct files in it.
C15_MkdirIsIdempotent ==
    /\ [][\A t \in Threads :
            (pc[t] = "w_mkdir" /\ pc'[t] # "w_mkdir") =>
                \/ /\ pc'[t] = "w_lock"
                   /\ err'[t] = NoError
                   /\ dirs' = dirs \cup {key[t]}
                   /\ files' = files
                \/ /\ pc'[t] = "w_done"
                   /\ err'[t] = ioError
                   /\ dirs' = dirs
          ]_vars
    /\ [](\A t \in Threads : pc[t] \in PastMkdir => key[t] \in dirs)
    /\ [](\A t, u \in Threads :
            (t # u /\ made[t] /\ made[u] /\ key[t] = key[u]
                /\ pc[t] = "w_open" /\ pc[u] = "w_open") =>
                /\ name[t] # name[u]
                /\ {name[t], name[u]} \subseteq DOMAIN files[key[t]])

\* both threads saw the subdirectory absent, both ran Mkdir, both hold a stream
C15_Witness ==
    \E t, u \in Threads :
        /\ t # u
        /\ made[t] /\ made[u]
        /\ key[t] = key[u]
        /\ pc[t] = "w_open" /\ pc[u] = "w_open"
        /\ DOMAIN files[key[t]] = {name[t], name[u]}
        /\ name[t] # name[u]

\* thread t takes a step of a Reader call
ReaderStep(t) ==
    /\ pc'[t] \in {"r_list", "r_file", "r_open", "r_read", "r_done"}
    /\ <<pc[t], hnd[t], key[t], name[t], listed[t], err[t], data[t]>>
         # <<pc'[t], hnd'[t], key'[t], name'[t], listed'[t], err'[t], data'[t]>>

\* C16: no step of a Reader call, whether the call succeeds or fails, changes
\* the set of subdirectories, the set or content of the version files of any
\* key, the version counter or the mutex of any handle.
C16_ReaderHasNoSideEffects ==
    [][\A t \in Threads :
        ReaderStep(t) => UNCHANGED <<dirs, files, version, mutex, allocated>>]_vars

\* one Reader call has read a version to its end, another has found no
\* subdirectory for its key, and there is still none
C16_Witness ==
    \E t, u \in Threads :
        /\ pc[t] = "r_read" /\ data[t] # <<>>
        /\ pc[u] = "r_done" /\ IsDataNotFound(err[u])
        /\ key[u] \notin dirs

\* thread t's Writer call creates its version file in this step
CreatesNow(t) == pc[t] = "w_create" /\ pc'[t] = "w_open"

\* C17: in a Writer call the counter moves in one step only, by exactly one and
\* on the call's own handle, and the files move in one step only, the create,
\* which adds the call's one new name to the subdirectory of its key and leaves
\* every file that existed, of that key and of every other, as it was.
C17_WriterAddsOneFile ==
    [][/\ version' # version =>
            \E t \in Threads :
                /\ pc[t] = "w_inc" /\ pc'[t] = "w_create"
                /\ version' = [version EXCEPT ![hnd[t]] = @ + 1]
                /\ files' = files
       /\ (\E k \in DOMAIN files : DOMAIN files'[k] # DOMAIN files[k]) =>
            \E t \in Threads : CreatesNow(t)
       /\ \A t \in Threads :
            CreatesNow(t) =>
                /\ name[t] \notin DOMAIN files[key[t]]
                /\ DOMAIN files'[key[t]] = DOMAIN files[key[t]] \cup {name[t]}
                /\ \A k \in DOMAIN files :
                    /\ k # key[t] => files'[k] = files[k]
                    /\ \A n \in DOMAIN files[k] : files'[k][n] = files[k][n]
                /\ version' = version
       /\ \A t \in Threads :
            pc'[t] \in {"w_mkdir", "w_lock", "w_inc"} /\ pc'[t] # pc[t] =>
                files' = files /\ version' = version
      ]_vars

\* the second Writer call for a key holds its stream beside the closed first
\* version
C17_Witness ==
    \E t \in Threads :
        /\ pc[t] = "w_open"
        /\ name[t] = Sprintf(1)
        /\ DOMAIN files[key[t]] = {Sprintf(0), Sprintf(1)}
        /\ ~files[key[t]][Sprintf(0)].open
        /\ files[key[t]][Sprintf(0)].content # <<>>
        /\ version[hnd[t]] = 2

\* thread t wrote a payload to the shared key through its handle and closed,
\* no file was created in the key's subdirectory since that Writer call began,
\* and every version its Reader call listed was closed
ReadsAfterOwnWrite(t) ==
    /\ session[t].key = SharedKey
    /\ session[t].payload # <<>>
    /\ key[t] = SharedKey
    /\ quiet[t]

\* C18: with two handles on one directory, a thread that wrote the key through
\* its handle, closed, and then reads the key gets the content of its own
\* write, not that of a version written through the other handle.
C18_ReadsNewestAcrossHandles ==
    \A t \in Threads :
        (ReadsAfterOwnWrite(t) /\ pc[t] = "r_read") => data[t] = session[t].payload

====
